---- MODULE Spec2Model ----
(***************************************************************************)
(* A model of the Redux store (createStore), of combineReducers and of     *)
(* isPlainObject.                                                          *)
(*                                                                         *)
(* The store is a closure over currentReducer, currentState,               *)
(* currentListeners, nextListeners and isDispatching.  The program is      *)
(* synchronous; what makes it a state machine is re-entrancy: the reducer  *)
(* and the listeners are user code that runs in the middle of dispatch and *)
(* may call the store again.  The call stack of the JavaScript program is  *)
(* therefore part of the state (stack), and the listener arrays live in a  *)
(* heap so that two names for the same array (nextListeners ===            *)
(* currentListeners) and in-place push/splice are modelled as they are.    *)
(***************************************************************************)
EXTENDS Integers, Sequences, FiniteSets, Bags, TLC

\* ------------------------------------------------------------------ bounds
MaxState == 2        \* the user reducers count within 0..MaxState
MaxSubs == 3         \* subscribe calls accepted over the life of the store
MaxDepth == 2        \* dispatch calls in progress at once (nesting from listeners)
NestSubs == 2        \* subscribe calls up to which listeners dispatch (SpecListeners)
CoreSubs == 2        \* subscribe calls accepted under Spec
CoreDepth == 1       \* dispatch calls in progress at once under Spec
MaxObjects == 8      \* state objects in use at once

\* ------------------------------------------------------- JavaScript values
Undefined == [typeof |-> "undefined"]
Null == [typeof |-> "object", id |-> "null"]
Num(n) == [typeof |-> "number", n |-> n]
Str(s) == [typeof |-> "string", s |-> s]
\* An object is its identity, its prototype chain (the objects reached by
\* repeated Object.getPrototypeOf, the last one having prototype null) and its
\* `type` property.
Obj(id, chain, type) == [typeof |-> "object", id |-> id, chain |-> chain, type |-> type]
Fn(id) == [typeof |-> "function", id |-> id]

ObjectPrototype == Obj("Object.prototype", <<>>, Undefined)
ArrayPrototype == Obj("Array.prototype", <<"Object.prototype">>, Undefined)
ClassPrototype == Obj("Klass.prototype", <<"Object.prototype">>, Undefined)

\* Object.getPrototypeOf(obj): the head of the chain, itself an object whose
\* chain is the rest; null at the end of the chain.
GetPrototypeOf(obj) ==
  IF obj.chain = <<>> THEN Null
  ELSE Obj(Head(obj.chain), Tail(obj.chain), Undefined)

\* The while loop of isPlainObject: climb until the prototype is null.
RECURSIVE ClimbProto(_)
ClimbProto(proto) ==
  IF GetPrototypeOf(proto) # Null THEN ClimbProto(GetPrototypeOf(proto)) ELSE proto

\* Identity (===) of two objects.
SameObject(a, b) == a.typeof = b.typeof /\ a.id = b.id

isPlainObject_NullCheckOnly(obj) == obj.typeof = "object" /\ obj # Null

isPlainObject(obj) ==
  IF obj.typeof # "object" \/ obj = Null THEN FALSE
  ELSE SameObject(GetPrototypeOf(obj), ClimbProto(obj))

\* ------------------------------------------------------------ action types
INIT == Str("@@redux/INIT")
REPLACE == Str("@@redux/REPLACE")

\* The values a caller may hand to dispatch.
ActInc == Obj("incAction", <<"Object.prototype">>, Str("INC"))
ActBoom == Obj("boomAction", <<"Object.prototype">>, Str("BOOM"))
ActNoType == Obj("noTypeAction", <<"Object.prototype">>, Undefined)
ActInstance == Obj("instanceAction", <<"Klass.prototype", "Object.prototype">>, Str("INC"))
ActArray == Obj("arrayAction", <<"Array.prototype", "Object.prototype">>, Undefined)
ActString == Str("INC")
\* Object.create(null) with a type: an object whose prototype is null.
ActNullProto == Obj("nullProtoAction", <<>>, Str("INC"))
DispatchInputs == {ActInc, ActBoom, ActNoType, ActInstance, ActArray, ActString, Null,
                   ActNullProto}
\* The private actions the store itself dispatches.
ActInit == Obj("initAction", <<"Object.prototype">>, INIT)
ActReplace == Obj("replaceAction", <<"Object.prototype">>, REPLACE)

\* dispatch accepts the value: a plain object whose type is not undefined.
ValidAction(action) == isPlainObject(action) /\ action.type.typeof # "undefined"

\* ------------------------------------------------------------ user code
\* Two user reducers, told apart by every result they give.  Both follow the
\* reducer contract (initial state for undefined, passthrough for unknown
\* types) except that both raise on the BOOM action.
Reducers == {"counter", "down"}
NotAFunction == "notAFunction"
Throws == [typeof |-> "throws"]

ReducerFn(r, state, action) ==
  IF action.type = Str("BOOM") THEN Throws
  ELSE LET s == IF state = Undefined
                THEN (IF r = "counter" THEN Num(0) ELSE Num(MaxState))
                ELSE state
       IN IF action.type # Str("INC") THEN s
          ELSE IF r = "counter"
               THEN (IF s.n < MaxState THEN Num(s.n + 1) ELSE Num(0))
               ELSE (IF s.n > 0 THEN Num(s.n - 1) ELSE Num(MaxState))

Listeners == {"A", "B", "C"}

\* ------------------------------------------------------- composite states
\* A state object: its identity and its own enumerable properties.
Rec(id, props) ==
  [typeof |-> "object", id |-> id, chain |-> <<"Object.prototype">>, type |-> Undefined,
   props |-> props]
EmptyProps == [k \in {} |-> Undefined]
NaN == [typeof |-> "number", nan |-> TRUE]

\* The identities objects are allocated from: a new object takes the first
\* one that no object in use has.
ObjIds == <<"o1", "o2", "o3", "o4", "o5", "o6", "o7", "o8">>
Fresh(used) ==
  ObjIds[CHOOSE i \in 1..MaxObjects :
           ObjIds[i] \notin used /\ \A j \in 1..(i - 1) : ObjIds[j] \in used]

HasProps(v) == "props" \in DOMAIN v
OwnId(v) == IF v.typeof = "object" /\ v # Null THEN {v.id} ELSE {}
\* The identities of a value and of the objects it holds.
IdsOf(v) ==
  OwnId(v) \cup (IF HasProps(v) THEN UNION {OwnId(v.props[k]) : k \in DOMAIN v.props}
                 ELSE {})

\* Object.keys(value), as a set.
KeysOf(v) == IF HasProps(v) THEN DOMAIN v.props ELSE {}
\* Mutant of Get: the whole state is handed to the sub-reducer.
Get_WholeState(state, key) == state
\* state[key]: undefined when the value has no such property.
Get(state, key) == IF key \in KeysOf(state) THEN state.props[key] ELSE Undefined

\* next === previous: false for NaN, identity for objects, value otherwise.
StrictEquals(a, b) ==
  IF a = NaN \/ b = NaN THEN FALSE
  ELSE IF a.typeof = "object" /\ b.typeof = "object" THEN a.id = b.id
  ELSE a = b

\* Equality of content, whatever the identity.
DeepEqual(a, b) ==
  IF HasProps(a) /\ HasProps(b) THEN a.props = b.props ELSE a = b

\* Truthiness of a value (action && action.type, actionType && ...).
Truthy(v) ==
  /\ v \notin {Undefined, Null, NaN, Str(""), Num(0)}
  /\ v.typeof # "throws"

\* ----------------------------------------------------- user sub-reducers
\* The functions and other values found in the mappings handed to
\* combineReducers.  counter and down are the reducers above; box holds an
\* object and answers TOUCH with a copy of it (same content, new object); nan
\* holds NaN; forget returns undefined for the FORGET action and for an action
\* whose type is null; noInit returns undefined for an undefined state;
\* initOnly knows the INIT type but returns undefined for any other type it is
\* given with an undefined state.
SubReducers == Reducers \cup {"box", "nan", "forget", "noInit", "initOnly"}
ActTouch == Obj("touchAction", <<"Object.prototype">>, Str("TOUCH"))
ActForget == Obj("forgetAction", <<"Object.prototype">>, Str("FORGET"))
ActNullType == Obj("nullTypeAction", <<"Object.prototype">>, Null)
ActNoop == Obj("noopAction", <<"Object.prototype">>, Str("NOOP"))
PROBE_UNKNOWN_ACTION == Str("@@redux/PROBE_UNKNOWN_ACTION")
ActProbe == Obj("probeAction", <<"Object.prototype">>, PROBE_UNKNOWN_ACTION)

\* reducer(state, action) for a function of a mapping; `fresh` is the identity
\* an object it creates gets.
SubReducerFn(r, state, action, fresh) ==
  IF r \in Reducers THEN ReducerFn(r, state, action)
  ELSE IF r = "box"
  THEN (IF state = Undefined \/ action.type = Str("TOUCH") THEN Rec(fresh, EmptyProps)
        ELSE state)
  ELSE IF r = "nan" THEN (IF state = Undefined THEN NaN ELSE state)
  ELSE IF r = "forget"
  THEN (IF action.type \in {Str("FORGET"), Null} THEN Undefined
        ELSE IF state = Undefined THEN Num(0) ELSE state)
  ELSE IF r = "noInit" THEN state
  ELSE IF state # Undefined THEN state
  ELSE IF action.type = INIT THEN Num(0) ELSE Undefined

\* --------------------------------------------------------- combineReducers
Throw(e) == [typeof |-> "throws", err |-> e]
NoThrow == [typeof |-> "none"]
Prop(key, value) == [key |-> key, value |-> value]
\* reducers[key] of a mapping kept as its properties in Object.keys order.
PropOf(props, key) == props[CHOOSE i \in DOMAIN props : props[i].key = key].value

\* String(actionType).
String(v) == IF v.typeof = "string" THEN v.s ELSE "[" \o v.typeof \o "]"

getUndefinedStateErrorMessage(key, action) ==
  LET actionType == IF Truthy(action) THEN action.type ELSE action
      actionDescription == IF Truthy(actionType) THEN "action " \o String(actionType)
                           ELSE "an action"
  IN "Given " \o actionDescription \o ", reducer " \o key \o " returned undefined"

\* What warning() is called with: the kind of message, the keys and the
\* argument name it quotes.
Warning(kind, keys, argumentName) == [kind |-> kind, keys |-> keys, argumentName |-> argumentName]
NoWarning == Warning("none", {}, "")

\* getUnexpectedStateShapeWarningMessage, lines 17-63: the message (if any) and
\* unexpectedKeyCache as the call leaves it.
getUnexpectedStateShapeWarningMessage(inputState, reducers, action, unexpectedKeyCache) ==
  LET reducerKeys == {reducers[i].key : i \in DOMAIN reducers}
      argumentName == IF Truthy(action) /\ action.type = INIT
                      THEN "preloadedState argument passed to createStore"
                      ELSE "previous state received by the reducer"
      unexpectedKeys == {key \in KeysOf(inputState) :
                           key \notin reducerKeys /\ key \notin unexpectedKeyCache}
  IN IF reducerKeys = {}
     THEN [message |-> Warning("NoValidReducer", {}, ""), cache |-> unexpectedKeyCache]
     ELSE IF ~isPlainObject(inputState)
     THEN [message |-> Warning("UnexpectedType", {}, argumentName),
           cache |-> unexpectedKeyCache]
     ELSE IF Truthy(action) /\ action.type = REPLACE
     THEN [message |-> NoWarning, cache |-> unexpectedKeyCache \cup unexpectedKeys]
     ELSE IF unexpectedKeys # {}
     THEN [message |-> Warning("UnexpectedKeys", unexpectedKeys, argumentName),
           cache |-> unexpectedKeyCache \cup unexpectedKeys]
     ELSE [message |-> NoWarning, cache |-> unexpectedKeyCache]

\* The body of the forEach of assertReducerShape for one property: the error
\* it raises, or "none".  An error the reducer itself raises leaves the same
\* way.
ShapeErrorOf(p) ==
  LET initialState == SubReducerFn(p.value.id, Undefined, ActInit, Fresh({}))
      probed == SubReducerFn(p.value.id, Undefined, ActProbe, Fresh({}))
  IN IF initialState.typeof = "throws" THEN "ReducerError"
     ELSE IF initialState.typeof = "undefined"
     THEN "Reducer " \o p.key \o " returned undefined during initialization"
     ELSE IF probed.typeof = "throws" THEN "ReducerError"
     ELSE IF probed.typeof = "undefined"
     THEN "Reducer " \o p.key \o " returned undefined when probed with a random type"
     ELSE "none"

\* assertReducerShape(reducers), lines 65-98: the first error raised, in key
\* order, or "none".
assertReducerShape(reducers) ==
  LET failing == {i \in DOMAIN reducers : ShapeErrorOf(reducers[i]) # "none"}
  IN IF failing = {} THEN "none"
     ELSE ShapeErrorOf(reducers[CHOOSE i \in failing : \A j \in failing : i <= j])

\* combineReducers(reducers), lines 117-149: what the combination it returns
\* closes over.
\* Mutant of combineReducers: assertReducerShape is called outside any try
\* block, so its error leaves combineReducers.
combineReducers_NoCatch(reducers) ==
  LET finalReducers == SelectSeq(reducers, LAMBDA p : p.value.typeof = "function")
  IN [finalReducers |-> finalReducers,
      finalReducerKeys |-> [i \in DOMAIN finalReducers |-> finalReducers[i].key],
      shapeAssertionError |-> "none",
      thrown |-> IF assertReducerShape(finalReducers) = "none" THEN NoThrow
                 ELSE Throw(assertReducerShape(finalReducers))]

\* `thrown` is the error that leaves combineReducers itself: none, the catch
\* block of lines 147-149 keeps the error of assertReducerShape.
combineReducers(reducers) ==
  LET finalReducers == SelectSeq(reducers, LAMBDA p : p.value.typeof = "function")
  IN [finalReducers |-> finalReducers,
      finalReducerKeys |-> [i \in DOMAIN finalReducers |-> finalReducers[i].key],
      shapeAssertionError |-> assertReducerShape(finalReducers),
      thrown |-> NoThrow]

\* Mutant of HasChanged: change decided by content.
HasChanged_DeepEqual(hasChanged, nextStateForKey, previousStateForKey) ==
  hasChanged \/ ~DeepEqual(nextStateForKey, previousStateForKey)

\* Line 180: hasChanged = hasChanged || nextStateForKey !== previousStateForKey.
HasChanged(hasChanged, nextStateForKey, previousStateForKey) ==
  hasChanged \/ ~StrictEquals(nextStateForKey, previousStateForKey)

\* The for loop of combination, lines 170-181, from index i (1-based) on.  acc
\* holds nextState's properties, hasChanged, the error raised (if any), the
\* calls made so far and the identities in use.
RECURSIVE combinationLoop(_, _, _, _, _)
combinationLoop(c, state, action, i, acc) ==
  IF i > Len(c.finalReducerKeys) THEN acc
  ELSE IF state = Null THEN [acc EXCEPT !.thrown = Throw("TypeError")]
  ELSE LET key == c.finalReducerKeys[i]
           reducer == PropOf(c.finalReducers, key)
           previousStateForKey == Get(state, key)
           fresh == Fresh(acc.used)
           nextStateForKey == SubReducerFn(reducer.id, previousStateForKey, action, fresh)
           calls == Append(acc.calls, [key |-> key, reducer |-> reducer.id,
                                       previous |-> previousStateForKey,
                                       next |-> nextStateForKey])
       IN IF nextStateForKey.typeof = "throws"
          THEN [acc EXCEPT !.thrown = nextStateForKey, !.calls = calls]
          ELSE IF nextStateForKey.typeof = "undefined"
          THEN [acc EXCEPT !.thrown = Throw(getUndefinedStateErrorMessage(key, action)),
                           !.calls = calls]
          ELSE combinationLoop(c, state, action, i + 1,
                 [props |-> (key :> nextStateForKey) @@ acc.props,
                  hasChanged |-> HasChanged(acc.hasChanged, nextStateForKey,
                                            previousStateForKey),
                  thrown |-> NoThrow,
                  calls |-> calls,
                  used |-> acc.used \cup IdsOf(nextStateForKey)])

\* combination(state = {}, action), lines 151-183, of the closure c, with
\* unexpectedKeyCache as it finds it and the identities in use (live).  Gives
\* the value returned or the error raised (out), the warning emitted, the
\* cache afterwards and the sub-reducer calls made.
combination(c, stateArg, action, unexpectedKeyCache, live) ==
  LET state == IF stateArg = Undefined THEN Rec(Fresh(live), EmptyProps) ELSE stateArg
      w == getUnexpectedStateShapeWarningMessage(state, c.finalReducers, action,
                                                 unexpectedKeyCache)
      nextState == Fresh(live \cup IdsOf(state))
      loop == combinationLoop(c, state, action, 1,
                [props |-> EmptyProps, hasChanged |-> FALSE, thrown |-> NoThrow,
                 calls |-> <<>>, used |-> live \cup IdsOf(state) \cup {nextState}])
  IN IF c.shapeAssertionError # "none"
     THEN [out |-> Throw(c.shapeAssertionError), warning |-> NoWarning,
           cache |-> unexpectedKeyCache, calls |-> <<>>]
     ELSE [out |-> IF loop.thrown # NoThrow THEN loop.thrown
                   ELSE IF loop.hasChanged THEN Rec(nextState, loop.props) ELSE state,
           warning |-> w.message, cache |-> w.cache, calls |-> loop.calls]

\* The mappings combineReducers is called with, once each, before the store
\* is created; the combinations it returns go by these names.
ReducerMaps ==
  [combAB |-> <<Prop("a", Fn("counter")), Prop("u", Undefined), Prop("b", Fn("box"))>>,
   combA |-> <<Prop("a", Fn("counter"))>>,
   combAN |-> <<Prop("a", Fn("counter")), Prop("s", Str("notAFunction")),
                Prop("n", Fn("nan"))>>,
   combFA |-> <<Prop("f", Fn("forget")), Prop("a", Fn("counter"))>>,
   combAZ |-> <<Prop("a", Fn("counter")), Prop("z", Fn("noInit"))>>,
   combAI |-> <<Prop("a", Fn("counter")), Prop("i", Fn("initOnly"))>>,
   combNone |-> <<Prop("u", Undefined)>>]
Combinations == DOMAIN ReducerMaps
Closure(r) == combineReducers(ReducerMaps[r])
\* The keys of finalReducers.
RetainedKeys(r) == {Closure(r).finalReducerKeys[i] : i \in DOMAIN Closure(r).finalReducerKeys}
\* What typeof calls a function among the values handed over as a reducer.
ReducerFunctions == Reducers \cup Combinations

\* ----------------------------------------------------------------- state
VARIABLES
  created,           \* "combining" | "new" | "ready" | "delegated" | "failed":
                     \* the progress of combineReducers and createStore
  args,              \* the arguments createStore is called with
  currentReducer,    \* let currentReducer
  currentState,      \* let currentState
  heap,              \* the listener arrays, by identity
  currentListeners,  \* let currentListeners: the identity of an array of heap
  nextListeners,     \* let nextListeners: the identity of an array of heap
  isDispatching,     \* let isDispatching
  subs,              \* the closures subscribe has returned: listener and isSubscribed
  stack,             \* the call stack: dispatch calls in progress and listeners running
  ret,               \* how the last call of a store function ended, as its caller sees it
  unexpectedKeyCache, \* let unexpectedKeyCache of each combination: the keys warned about
  warnings,          \* the last message warning() was called with
  bound,             \* what bindActionCreators last returned to user code
  observed           \* the calls of observer.next: how many, and the last value passed

vars == <<created, args, currentReducer, currentState, heap, currentListeners,
          nextListeners, isDispatching, subs, stack, ret, unexpectedKeyCache, warnings,
          bound, observed>>
diagVars == <<unexpectedKeyCache, warnings>>
glueVars == <<bound, observed>>
NotObserved == [observer |-> Undefined, calls |-> 0, last |-> Undefined]
storeVars == <<currentReducer, currentState, heap, currentListeners,
               nextListeners, isDispatching, subs>>

ArrayIds == 1..(MaxDepth + 2)
NoRet == [op |-> "none", err |-> "none", val |-> Undefined]
Returned(op, val) == [op |-> op, err |-> "none", val |-> val]
Raised(op, err) == [op |-> op, err |-> err, val |-> Undefined]

\* ------------------------------------------------------ the listener arrays
\* The arrays something still refers to: the two store variables and the
\* `listeners` constant of every dispatch whose loop is running.
LiveArrays(cur, nxt, stk) ==
  {cur, nxt} \cup {stk[j].listeners : j \in {k \in DOMAIN stk : stk[k].kind = "dispatch"
                                                            /\ stk[k].phase = "notify"}}

\* An array nothing refers to any more is gone (garbage collected).
Collect(h, live) == [a \in ArrayIds |-> IF a \in live THEN h[a] ELSE <<>>]

\* The identity of a newly allocated array.
FreshArray(cur, nxt, stk) ==
  CHOOSE a \in ArrayIds \ LiveArrays(cur, nxt, stk) :
    \A b \in ArrayIds \ LiveArrays(cur, nxt, stk) : a <= b

ensureCanMutateNextListeners_NoCopy(h, cur, nxt, stk) == [heap |-> h, next |-> nxt]

\* Mutant of ensureCanMutateNextListeners: the comparison is inverted.
ensureCanMutateNextListeners_Inverted(h, cur, nxt, stk) ==
  IF nxt # cur
  THEN LET a == FreshArray(cur, nxt, stk)
       IN [heap |-> [h EXCEPT ![a] = h[cur]], next |-> a]
  ELSE [heap |-> h, next |-> nxt]

\* Mutant of ensureCanMutateNextListeners: the list is copied on every call.
ensureCanMutateNextListeners_AlwaysCopy(h, cur, nxt, stk) ==
  LET a == FreshArray(cur, nxt, stk)
  IN [heap |-> [h EXCEPT ![a] = h[nxt]], next |-> a]

\* ensureCanMutateNextListeners: nextListeners = currentListeners.slice() when
\* both name the same array.  Gives the heap and nextListeners afterwards.
ensureCanMutateNextListeners(h, cur, nxt, stk) ==
  IF nxt = cur
  THEN LET a == FreshArray(cur, nxt, stk)
       IN [heap |-> [h EXCEPT ![a] = h[cur]], next |-> a]
  ELSE [heap |-> h, next |-> nxt]

\* Array.prototype.indexOf: the first (0-based) index of x, or -1.
IndexOf(seq, x) ==
  IF \E j \in 1..Len(seq) : seq[j] = x
  THEN (CHOOSE j \in 1..Len(seq) : seq[j] = x /\ \A k \in 1..(j - 1) : seq[k] # x) - 1
  ELSE 0 - 1

\* Array.prototype.splice(index, 1): removes the element at the 0-based index;
\* a negative index counts from the end, an index past the end removes nothing.
Splice1(seq, index) ==
  LET at == IF index < 0 THEN (IF Len(seq) + index < 0 THEN 0 ELSE Len(seq) + index)
            ELSE index
  IN IF at >= Len(seq) THEN seq
     ELSE SubSeq(seq, 1, at) \o SubSeq(seq, at + 2, Len(seq))

\* ------------------------------------------------------------- call stack
Top == stack[Len(stack)]
Pop(stk) == SubSeq(stk, 1, Len(stk) - 1)
InReducer == stack # <<>> /\ Top.kind = "dispatch" /\ Top.phase = "reduce"
InLoop == stack # <<>> /\ Top.kind = "dispatch" /\ Top.phase = "notify"
InListener == stack # <<>> /\ Top.kind = "listener"
DispatchDepth == Cardinality({j \in DOMAIN stack : stack[j].kind = "dispatch"})

\* User code that holds the store is running: the caller of createStore after
\* it returned, a listener, or a reducer (the reducer of the INIT dispatch runs
\* before createStore has returned the store to anyone).
UserCodeRuns == created = "ready" /\ (stack = <<>> \/ InListener \/ InReducer)

\* The identities of the state objects something still refers to.
LiveObjects ==
  IdsOf(currentState) \cup IdsOf(args.preloadedState) \cup IdsOf(ret.val)
  \cup UNION {IF stack[j].kind = "dispatch"
              THEN IdsOf(stack[j].pre) \cup IdsOf(stack[j].result)
              ELSE IF stack[j].kind = "listener" THEN IdsOf(stack[j].seen)
              ELSE {} : j \in DOMAIN stack}

\* currentReducer(currentState, action), line 199, for the function r: a user
\* reducer, or the combination of that name.
RunReducer(r, state, action) ==
  IF r \in Combinations
  THEN combination(Closure(r), state, action, unexpectedKeyCache[r], LiveObjects)
  ELSE [out |-> ReducerFn(r, state, action), warning |-> NoWarning, cache |-> {},
        calls |-> <<>>]

\* unexpectedKeyCache and the last warning after the reducer r has run.
CacheAfter(r, run) ==
  IF r \in Combinations THEN [unexpectedKeyCache EXCEPT ![r] = run.cache]
  ELSE unexpectedKeyCache
WarningsAfter(run) == IF run.warning # NoWarning THEN run.warning ELSE warnings

\* The name under which the end of a dispatch reaches its caller.
OpOf(via) == IF via = "replace" THEN "replaceReducer"
             ELSE IF via = "init" THEN "createStore" ELSE "dispatch"

\* ------------------------------------------------------------------ Init
\* The parameters of createStore are out of scope once it has returned.
NoArgs == [reducer |-> NotAFunction, preloadedState |-> Undefined, enhancer |-> Undefined]
ReducerArgs == Reducers \cup {NotAFunction}
PreloadedArgs == {Undefined, Num(1), Fn("enhancer")}
EnhancerArgs == {Undefined, Fn("enhancer"), Str("notAFunction")}

Init ==
  /\ created = "new"
  /\ args \in [reducer : ReducerArgs, preloadedState : PreloadedArgs, enhancer : EnhancerArgs]
  /\ currentReducer = NotAFunction
  /\ currentState = Undefined
  /\ heap = [a \in ArrayIds |-> <<>>]
  /\ currentListeners = 1
  /\ nextListeners = 1
  /\ isDispatching = FALSE
  /\ subs = <<>>
  /\ stack = <<>>
  /\ ret = NoRet
  /\ unexpectedKeyCache = [r \in Combinations |-> {}]
  /\ warnings = NoWarning
  /\ bound = Undefined
  /\ observed = NotObserved

\* ------------------------------------------------------------- dispatch
\* The listeners of the active subscriptions, in registration order.
RECURSIVE ActiveRegs(_)
ActiveRegs(ss) ==
  IF ss = <<>> THEN <<>>
  ELSE (IF Head(ss).isSubscribed THEN <<Head(ss).listener>> ELSE <<>>) \o ActiveRegs(Tail(ss))

\* The frame of a dispatch call that has entered its try block: the reducer
\* (the function currentReducer named when it was called) is running.
ReduceFrame(action, via, reducer, state) ==
  [kind |-> "dispatch", action |-> action, via |-> via, phase |-> "reduce",
   red |-> reducer, listeners |-> 0, i |-> 0,
   pre |-> state, regs |-> ActiveRegs(subs), snap |-> <<>>, invoked |-> <<>>,
   result |-> Undefined, nested |-> FALSE, late |-> {}, nsubs |-> Len(subs)]

\* Mutant of DispatchCall: the refusal of a nested dispatch runs the finally
\* block (the check moved inside the try).
DispatchCall_ReleasesGuard(action, via, reducer, state) ==
  IF ~isPlainObject(action)
  THEN /\ ret' = Raised(OpOf(via), "ActionNotPlainObject")
       /\ UNCHANGED <<heap, currentListeners, nextListeners, isDispatching, subs, stack>>
  ELSE IF action.type.typeof = "undefined"
  THEN /\ ret' = Raised(OpOf(via), "ActionTypeUndefined")
       /\ UNCHANGED <<heap, currentListeners, nextListeners, isDispatching, subs, stack>>
  ELSE IF isDispatching
  THEN /\ ret' = Raised(OpOf(via), "NestedDispatch")
       /\ isDispatching' = FALSE
       /\ UNCHANGED <<heap, currentListeners, nextListeners, subs, stack>>
  ELSE /\ DispatchDepth < MaxDepth
       /\ isDispatching' = TRUE
       /\ stack' = Append(stack, ReduceFrame(action, via, reducer, state))
       /\ ret' = NoRet
       /\ UNCHANGED <<heap, currentListeners, nextListeners, subs>>

\* Mutant of DispatchCall: the nested-dispatch check comes first.
DispatchCall_NestedFirst(action, via, reducer, state) ==
  IF isDispatching
  THEN /\ ret' = Raised(OpOf(via), "NestedDispatch")
       /\ UNCHANGED <<heap, currentListeners, nextListeners, isDispatching, subs, stack>>
  ELSE IF ~isPlainObject(action)
  THEN /\ ret' = Raised(OpOf(via), "ActionNotPlainObject")
       /\ UNCHANGED <<heap, currentListeners, nextListeners, isDispatching, subs, stack>>
  ELSE IF action.type.typeof = "undefined"
  THEN /\ ret' = Raised(OpOf(via), "ActionTypeUndefined")
       /\ UNCHANGED <<heap, currentListeners, nextListeners, isDispatching, subs, stack>>
  ELSE /\ DispatchDepth < MaxDepth
       /\ isDispatching' = TRUE
       /\ stack' = Append(stack, ReduceFrame(action, via, reducer, state))
       /\ ret' = NoRet
       /\ UNCHANGED <<heap, currentListeners, nextListeners, subs>>

\* Mutant of DispatchCall: a dispatch made while a dispatch is in progress
\* (from a listener) returns the action without running the reducer.
DispatchCall_DropsNested(action, via, reducer, state) ==
  IF ~isPlainObject(action)
  THEN /\ ret' = Raised(OpOf(via), "ActionNotPlainObject")
       /\ UNCHANGED <<heap, currentListeners, nextListeners, isDispatching, subs, stack>>
  ELSE IF action.type.typeof = "undefined"
  THEN /\ ret' = Raised(OpOf(via), "ActionTypeUndefined")
       /\ UNCHANGED <<heap, currentListeners, nextListeners, isDispatching, subs, stack>>
  ELSE IF isDispatching
  THEN /\ ret' = Raised(OpOf(via), "NestedDispatch")
       /\ UNCHANGED <<heap, currentListeners, nextListeners, isDispatching, subs, stack>>
  ELSE IF stack # <<>>
  THEN /\ ret' = Returned(OpOf(via), action)
       /\ UNCHANGED <<heap, currentListeners, nextListeners, isDispatching, subs, stack>>
  ELSE /\ DispatchDepth < MaxDepth
       /\ isDispatching' = TRUE
       /\ stack' = Append(stack, ReduceFrame(action, via, reducer, state))
       /\ ret' = NoRet
       /\ UNCHANGED <<heap, currentListeners, nextListeners, subs>>

\* dispatch(action), lines 178-202: the three checks, then the try block up to
\* the call of the reducer.  `reducer` is what currentReducer names and `state`
\* what currentState holds when dispatch is called.
DispatchCall(action, via, reducer, state) ==
  IF ~isPlainObject(action)
  THEN /\ ret' = Raised(OpOf(via), "ActionNotPlainObject")
       /\ UNCHANGED <<heap, currentListeners, nextListeners, isDispatching, subs, stack>>
  ELSE IF action.type.typeof = "undefined"
  THEN /\ ret' = Raised(OpOf(via), "ActionTypeUndefined")
       /\ UNCHANGED <<heap, currentListeners, nextListeners, isDispatching, subs, stack>>
  ELSE IF isDispatching
  THEN /\ ret' = Raised(OpOf(via), "NestedDispatch")
       /\ UNCHANGED <<heap, currentListeners, nextListeners, isDispatching, subs, stack>>
  ELSE /\ DispatchDepth < MaxDepth
       /\ isDispatching' = TRUE
       /\ stack' = Append(stack, ReduceFrame(action, via, reducer, state))
       /\ ret' = NoRet
       /\ UNCHANGED <<heap, currentListeners, nextListeners, subs>>

Dispatch(action) ==
  /\ UserCodeRuns
  /\ DispatchCall(action, "user", currentReducer, currentState)
  /\ UNCHANGED <<currentReducer, currentState, created, args>>
  /\ UNCHANGED diagVars
  /\ UNCHANGED glueVars

\* The reducer returns: currentState = <its result>, the finally block, the
\* snapshot (line 205) and the loop's i = 0.
ReducerReturn ==
  /\ InReducer
  /\ RunReducer(Top.red, currentState, Top.action).out.typeof # "throws"
  /\ currentState' = RunReducer(Top.red, currentState, Top.action).out
  /\ unexpectedKeyCache' = CacheAfter(Top.red, RunReducer(Top.red, currentState, Top.action))
  /\ warnings' = WarningsAfter(RunReducer(Top.red, currentState, Top.action))
  /\ isDispatching' = FALSE
  /\ currentListeners' = nextListeners
  /\ stack' = [j \in DOMAIN stack |->
                 IF j = Len(stack)
                 THEN [stack[j] EXCEPT !.phase = "notify", !.listeners = nextListeners,
                                       !.i = 0, !.snap = heap[nextListeners],
                                       !.invoked = <<>>,
                                       !.result = currentState', !.late = {}]
                 ELSE IF stack[j].kind = "dispatch"
                 THEN [stack[j] EXCEPT !.nested = TRUE, !.late = {}]
                 ELSE stack[j]]
  /\ heap' = Collect(heap, LiveArrays(currentListeners', nextListeners, stack'))
  /\ ret' = NoRet
  /\ UNCHANGED <<currentReducer, nextListeners, subs, created, args>>
  /\ UNCHANGED glueVars

\* The errors the running reducer can end with: its own, or the one a store
\* function it called has just raised and it does not catch.
ReducerErrors ==
  LET out == RunReducer(Top.red, currentState, Top.action).out
  IN (IF out.typeof # "throws" THEN {}
      ELSE IF out = Throws THEN {"ReducerError"} ELSE {out.err})
     \cup (IF ret.err # "none" THEN {ret.err} ELSE {})

\* Mutant of ReducerRaise: no finally block.
ReducerRaise_NoFinally(e) ==
  /\ InReducer
  /\ e \in ReducerErrors
  /\ stack' = Pop(stack)
  /\ ret' = Raised(OpOf(Top.via), e)
  /\ created' = IF Top.via = "init" THEN "failed" ELSE created
  /\ args' = IF Top.via = "init" THEN NoArgs ELSE args
  /\ unexpectedKeyCache' = CacheAfter(Top.red, RunReducer(Top.red, currentState, Top.action))
  /\ warnings' = WarningsAfter(RunReducer(Top.red, currentState, Top.action))
  /\ UNCHANGED <<currentReducer, currentState, heap, currentListeners, nextListeners,
                 isDispatching, subs>>
  /\ UNCHANGED glueVars

\* The reducer raises: the finally block runs and the error leaves dispatch.
ReducerRaise(e) ==
  /\ InReducer
  /\ e \in ReducerErrors
  /\ isDispatching' = FALSE
  /\ stack' = Pop(stack)
  /\ ret' = Raised(OpOf(Top.via), e)
  /\ created' = IF Top.via = "init" THEN "failed" ELSE created
  /\ args' = IF Top.via = "init" THEN NoArgs ELSE args
  /\ unexpectedKeyCache' = CacheAfter(Top.red, RunReducer(Top.red, currentState, Top.action))
  /\ warnings' = WarningsAfter(RunReducer(Top.red, currentState, Top.action))
  /\ UNCHANGED <<currentReducer, currentState, heap, currentListeners, nextListeners,
                 subs>>
  /\ UNCHANGED glueVars

\* One turn of the loop, lines 207-210: listeners[i] is read and called.
InvokeListener ==
  /\ InLoop
  /\ Top.i < Len(heap[Top.listeners])
  /\ LET l == heap[Top.listeners][Top.i + 1]
     IN stack' = Append([j \in DOMAIN stack |->
                           IF j = Len(stack)
                           THEN [stack[j] EXCEPT !.i = @ + 1, !.invoked = Append(@, l),
                                                 !.late = @ \cup {l}]
                           ELSE IF stack[j].kind = "dispatch"
                           THEN [stack[j] EXCEPT !.late = @ \cup {l}]
                           ELSE stack[j]],
                        [kind |-> "listener", l |-> l, seen |-> currentState,
                         nestedBefore |-> Top.nested])
  /\ ret' = NoRet
  /\ UNCHANGED <<storeVars, created, args>>
  /\ UNCHANGED diagVars
  /\ UNCHANGED glueVars

\* The loop is over: return action.
DispatchReturn ==
  /\ InLoop
  /\ Top.i >= Len(heap[Top.listeners])
  /\ stack' = Pop(stack)
  /\ heap' = Collect(heap, LiveArrays(currentListeners, nextListeners, stack'))
  /\ ret' = Returned(OpOf(Top.via), IF Top.via = "user" THEN Top.action ELSE Undefined)
  /\ created' = IF Top.via = "init" THEN "ready" ELSE created
  /\ args' = IF Top.via = "init" THEN NoArgs ELSE args
  /\ UNCHANGED <<currentReducer, currentState, currentListeners, nextListeners,
                 isDispatching, subs>>
  /\ UNCHANGED diagVars
  /\ UNCHANGED glueVars

\* The running listener returns to the loop.
ListenerReturn ==
  /\ InListener
  /\ stack' = Pop(stack)
  /\ ret' = NoRet
  /\ UNCHANGED <<storeVars, created, args>>
  /\ UNCHANGED diagVars
  /\ UNCHANGED glueVars

ListenerErrors == {"ListenerError"} \cup (IF ret.err # "none" THEN {ret.err} ELSE {})

\* The running listener raises (its own error, or one a store function it
\* called has just raised): nothing in dispatch catches it, so the loop and the
\* dispatch end with it.
ListenerThrow(e) ==
  /\ InListener
  /\ e \in ListenerErrors
  /\ stack' = Pop(Pop(stack))
  /\ heap' = Collect(heap, LiveArrays(currentListeners, nextListeners, stack'))
  /\ ret' = Raised(OpOf(stack[Len(stack) - 1].via), e)
  /\ UNCHANGED <<currentReducer, currentState, currentListeners, nextListeners,
                 isDispatching, subs, created, args>>
  /\ UNCHANGED diagVars
  /\ UNCHANGED glueVars

\* Mutant of CreateStore: preloadedState is not stored.
CreateStore_IgnoresPreloaded ==
  /\ created = "new"
  /\ stack = <<>>
  /\ ret = NoRet
  /\ LET shift == args.preloadedState.typeof = "function" /\ args.enhancer.typeof = "undefined"
         enhancer == IF shift THEN args.preloadedState ELSE args.enhancer
     IN IF enhancer.typeof # "undefined"
        THEN /\ IF enhancer.typeof # "function"
                THEN created' = "failed" /\ ret' = Raised("createStore", "EnhancerNotFunction")
                ELSE created' = "delegated" /\ ret' = Returned("createStore", Undefined)
             /\ args' = NoArgs
             /\ UNCHANGED <<storeVars, stack>>
        ELSE IF args.reducer \notin ReducerFunctions
        THEN /\ created' = "failed"
             /\ ret' = Raised("createStore", "ReducerNotFunction")
             /\ args' = NoArgs
             /\ UNCHANGED <<storeVars, stack>>
        ELSE /\ currentReducer' = args.reducer
             /\ currentState' = Undefined
             /\ DispatchCall(ActInit, "init", args.reducer, Undefined)
             /\ UNCHANGED <<created, args>>
  /\ UNCHANGED diagVars
  /\ UNCHANGED glueVars

\* ----------------------------------------------------------- createStore
\* createStore(reducer, preloadedState, enhancer), lines 40-65 and 278-286.
\* Init holds the values of lines 63-65 (an empty array under both names,
\* isDispatching false); the INIT dispatch runs as every dispatch does, and the
\* store is handed to the caller when it returns.
CreateStore ==
  /\ created = "new"
  /\ stack = <<>>
  /\ ret = NoRet
  /\ LET shift == args.preloadedState.typeof = "function" /\ args.enhancer.typeof = "undefined"
         enhancer == IF shift THEN args.preloadedState ELSE args.enhancer
         preloadedState == IF shift THEN Undefined ELSE args.preloadedState
     IN IF enhancer.typeof # "undefined"
        THEN /\ IF enhancer.typeof # "function"
                THEN created' = "failed" /\ ret' = Raised("createStore", "EnhancerNotFunction")
                ELSE created' = "delegated" /\ ret' = Returned("createStore", Undefined)
             /\ args' = NoArgs
             /\ UNCHANGED <<storeVars, stack>>
        ELSE IF args.reducer \notin ReducerFunctions
        THEN /\ created' = "failed"
             /\ ret' = Raised("createStore", "ReducerNotFunction")
             /\ args' = NoArgs
             /\ UNCHANGED <<storeVars, stack>>
        ELSE /\ currentReducer' = args.reducer
             /\ currentState' = preloadedState
             /\ DispatchCall(ActInit, "init", args.reducer, preloadedState)
             /\ UNCHANGED <<created, args>>
  /\ UNCHANGED diagVars
  /\ UNCHANGED glueVars

\* Mutant of GetState: no isDispatching check.
GetState_NoGuard ==
  /\ UserCodeRuns
  /\ ret' = Returned("getState", currentState)
  /\ UNCHANGED <<storeVars, stack, created, args>>
  /\ UNCHANGED diagVars
  /\ UNCHANGED glueVars

\* ------------------------------------------------------------- getState
GetState ==
  /\ UserCodeRuns
  /\ ret' = IF isDispatching THEN Raised("getState", "ReentrantRead")
            ELSE Returned("getState", currentState)
  /\ UNCHANGED <<storeVars, stack, created, args>>
  /\ UNCHANGED diagVars
  /\ UNCHANGED glueVars

\* ------------------------------------------------------------ subscribe
\* subscribe(listener), lines 113-131.  The closure it returns is the new last
\* entry of subs.
Subscribe(listener) ==
  /\ UserCodeRuns
  /\ IF listener \notin Listeners
     THEN /\ ret' = Raised("subscribe", "ListenerNotFunction")
          /\ UNCHANGED <<heap, nextListeners, subs>>
     ELSE IF isDispatching
     THEN /\ ret' = Raised("subscribe", "ReentrantSubscribe")
          /\ UNCHANGED <<heap, nextListeners, subs>>
     ELSE /\ Len(subs) < MaxSubs
          /\ LET e == ensureCanMutateNextListeners(heap, currentListeners, nextListeners, stack)
             IN /\ nextListeners' = e.next
                /\ heap' = [e.heap EXCEPT ![e.next] = Append(@, listener)]
          /\ subs' = Append(subs, [listener |-> listener, isSubscribed |-> TRUE])
          /\ ret' = Returned("subscribe", Fn("unsubscribe"))
  /\ UNCHANGED <<currentReducer, currentState, currentListeners, isDispatching,
                 stack, created, args>>
  /\ UNCHANGED diagVars
  /\ UNCHANGED glueVars

\* The closure unsubscribe, lines 132-150, of the k-th subscribe call.
Unsubscribe(k) ==
  /\ UserCodeRuns
  /\ k \in DOMAIN subs
  /\ IF ~subs[k].isSubscribed
     THEN /\ ret' = Returned("unsubscribe", Undefined)
          /\ UNCHANGED <<heap, nextListeners, subs>>
     ELSE IF isDispatching
     THEN /\ ret' = Raised("unsubscribe", "ReentrantUnsubscribe")
          /\ UNCHANGED <<heap, nextListeners, subs>>
     ELSE /\ subs' = [subs EXCEPT ![k].isSubscribed = FALSE]
          /\ LET e == ensureCanMutateNextListeners(heap, currentListeners, nextListeners, stack)
                 index == IndexOf(e.heap[e.next], subs[k].listener)
             IN /\ nextListeners' = e.next
                /\ heap' = [e.heap EXCEPT ![e.next] = Splice1(@, index)]
          /\ ret' = Returned("unsubscribe", Undefined)
  /\ UNCHANGED <<currentReducer, currentState, currentListeners, isDispatching,
                 stack, created, args>>
  /\ UNCHANGED diagVars
  /\ UNCHANGED glueVars

\* Mutant of ReplaceReducer: the REPLACE action is dispatched to the reducer
\* being replaced, and the new one is installed afterwards.
ReplaceReducer_DispatchFirst(nextReducer) ==
  /\ UserCodeRuns
  /\ IF nextReducer \notin ReducerFunctions
     THEN /\ ret' = Raised("replaceReducer", "NextReducerNotFunction")
          /\ UNCHANGED <<storeVars, stack>>
     ELSE /\ currentReducer' = nextReducer
          /\ DispatchCall(ActReplace, "replace", currentReducer, currentState)
          /\ UNCHANGED currentState
  /\ UNCHANGED <<created, args>>
  /\ UNCHANGED diagVars
  /\ UNCHANGED glueVars

\* ------------------------------------------------------- replaceReducer
\* replaceReducer(nextReducer), lines 227-234: the assignment, then
\* dispatch({ type: ActionTypes.REPLACE }).
ReplaceReducer(nextReducer) ==
  /\ UserCodeRuns
  /\ IF nextReducer \notin ReducerFunctions
     THEN /\ ret' = Raised("replaceReducer", "NextReducerNotFunction")
          /\ UNCHANGED <<storeVars, stack>>
     ELSE /\ currentReducer' = nextReducer
          /\ DispatchCall(ActReplace, "replace", nextReducer, currentState)
          /\ UNCHANGED currentState
  /\ UNCHANGED <<created, args>>
  /\ UNCHANGED diagVars
  /\ UNCHANGED glueVars

\* ------------------------------------------------------------------ Next
\* The whole interface, called with valid and invalid arguments from the top
\* level, from listeners and from reducers, construction included.  The bounds
\* CoreSubs and CoreDepth limit the calls that would grow the state.
ErrorNames == {"ReducerError", "ListenerError", "NestedDispatch", "ReentrantRead",
               "ReentrantSubscribe", "ReentrantUnsubscribe", "ActionNotPlainObject",
               "ActionTypeUndefined", "ListenerNotFunction", "NextReducerNotFunction"}

Next ==
  \/ CreateStore
  \/ GetState
  \/ \E listener \in {"A", "B", NotAFunction} :
       /\ (listener \in Listeners /\ ~isDispatching) => Len(subs) < CoreSubs
       /\ Subscribe(listener)
  \/ \E k \in 1..MaxSubs : Unsubscribe(k)
  \/ \E action \in DispatchInputs :
       /\ DispatchDepth < CoreDepth \/ isDispatching \/ ~ValidAction(action)
       /\ Dispatch(action)
  \/ \E nextReducer \in Reducers \cup {NotAFunction} :
       /\ DispatchDepth < CoreDepth \/ isDispatching \/ nextReducer \notin Reducers
       /\ ReplaceReducer(nextReducer)
  \/ ReducerReturn
  \/ \E e \in ErrorNames : ReducerRaise(e)
  \/ InvokeListener
  \/ ListenerReturn
  \/ \E e \in ErrorNames : ListenerThrow(e)
  \/ DispatchReturn

Spec == Init /\ [][Next]_vars

\* The subscription mechanism: a store built on the counter reducer with no
\* preloaded state, as createStore leaves it, then subscribe, unsubscribe and
\* dispatch of the INC action from the top level and from listeners (nested),
\* with listeners that may raise.  A listener dispatches only while at most
\* NestSubs subscribe calls have been made, and no further subscribe call is
\* made inside a nested dispatch once NestSubs have been.
InitListeners ==
  /\ created = "ready"
  /\ args = NoArgs
  /\ currentReducer = "counter"
  /\ currentState = Num(0)
  /\ heap = [a \in ArrayIds |-> <<>>]
  /\ currentListeners = 1
  /\ nextListeners = 1
  /\ isDispatching = FALSE
  /\ subs = <<>>
  /\ stack = <<>>
  /\ ret = NoRet
  /\ unexpectedKeyCache = [r \in Combinations |-> {}]
  /\ warnings = NoWarning
  /\ bound = Undefined
  /\ observed = NotObserved

NextListeners ==
  \/ \E listener \in Listeners :
       /\ DispatchDepth > 1 => Len(subs) < NestSubs
       /\ Subscribe(listener)
  \/ \E k \in 1..MaxSubs : Unsubscribe(k)
  \/ /\ DispatchDepth > 0 => Len(subs) <= NestSubs
     /\ Dispatch(ActInc)
  \/ ReducerReturn
  \/ InvokeListener
  \/ ListenerReturn
  \/ \E e \in ErrorNames : ListenerThrow(e)
  \/ DispatchReturn

SpecListeners == InitListeners /\ [][NextListeners]_vars

\* The same calls with listeners that never raise.
NextNested ==
  \/ \E listener \in Listeners :
       /\ DispatchDepth > 1 => Len(subs) < NestSubs
       /\ Subscribe(listener)
  \/ \E k \in 1..MaxSubs : Unsubscribe(k)
  \/ /\ DispatchDepth > 0 => Len(subs) <= NestSubs
     /\ Dispatch(ActInc)
  \/ ReducerReturn
  \/ InvokeListener
  \/ ListenerReturn
  \/ DispatchReturn

SpecNested == InitListeners /\ [][NextNested]_vars

\* Reducer composition: createStore is called with one of the combinations
\* and with no preloadedState, a record (complete, partial, with a key no
\* reducer owns, holding NaN) or a value that is not a record; then the actions
\* below are dispatched and the reducer replaced from the top level.
PreloadedStates ==
  {Undefined, Num(1), Null,
   Rec("o1", [a |-> Num(1)]),
   Rec("o1", [a |-> Num(0), b |-> Rec("o2", EmptyProps)]),
   Rec("o1", [a |-> Num(0), x |-> Num(1)]),
   Rec("o1", [a |-> Num(0), n |-> NaN])}
CombineInputs == {ActInc, ActTouch, ActNoop, ActForget, ActNullType}
ReplaceInputs == {"combAB", "combA", "combAZ"}

InitCombine ==
  /\ created = "combining"
  /\ args \in [reducer : Combinations, preloadedState : PreloadedStates,
               enhancer : {Undefined}]
  /\ currentReducer = NotAFunction
  /\ currentState = Undefined
  /\ heap = [a \in ArrayIds |-> <<>>]
  /\ currentListeners = 1
  /\ nextListeners = 1
  /\ isDispatching = FALSE
  /\ subs = <<>>
  /\ stack = <<>>
  /\ ret = NoRet
  /\ unexpectedKeyCache = [r \in Combinations |-> {}]
  /\ warnings = NoWarning
  /\ bound = Undefined
  /\ observed = NotObserved

\* The call combineReducers(ReducerMaps[args.reducer]) that user code makes to
\* get the reducer it then hands to createStore.
CombineReducers ==
  /\ created = "combining"
  /\ IF Closure(args.reducer).thrown # NoThrow
     THEN /\ created' = "failed"
          /\ ret' = Raised("combineReducers", Closure(args.reducer).thrown.err)
          /\ args' = NoArgs
     ELSE /\ created' = "new"
          /\ UNCHANGED <<ret, args>>
  /\ unexpectedKeyCache' = [unexpectedKeyCache EXCEPT ![args.reducer] = {}]
  /\ UNCHANGED <<storeVars, stack, warnings>>
  /\ UNCHANGED glueVars

NextCombine ==
  \/ CombineReducers
  \/ CreateStore
  \/ \E action \in CombineInputs : stack = <<>> /\ Dispatch(action)
  \/ \E nextReducer \in ReplaceInputs : stack = <<>> /\ ReplaceReducer(nextReducer)
  \/ ReducerReturn
  \/ InReducer /\ \E e \in ReducerErrors : ReducerRaise(e)
  \/ DispatchReturn

SpecCombine == InitCombine /\ [][NextCombine]_vars

\* A store on a combination with one listener: the mappings with an entry
\* that is not a function and with a sub-reducer that returns undefined for
\* some actions, and actions of these and other types.
FanOutMaps == {"combAB", "combAN", "combFA"}
FanOutStates == {Undefined, Null, Rec("o1", [a |-> Num(1)])}
FanOutInputs == {ActInc, ActTouch, ActForget, ActNullType}

InitFanOut ==
  /\ created = "combining"
  /\ args \in [reducer : FanOutMaps, preloadedState : FanOutStates, enhancer : {Undefined}]
  /\ currentReducer = NotAFunction
  /\ currentState = Undefined
  /\ heap = [a \in ArrayIds |-> <<>>]
  /\ currentListeners = 1
  /\ nextListeners = 1
  /\ isDispatching = FALSE
  /\ subs = <<>>
  /\ stack = <<>>
  /\ ret = NoRet
  /\ unexpectedKeyCache = [r \in Combinations |-> {}]
  /\ warnings = NoWarning
  /\ bound = Undefined
  /\ observed = NotObserved

NextFanOut ==
  \/ CombineReducers
  \/ CreateStore
  \/ stack = <<>> /\ subs = <<>> /\ Subscribe("A")
  \/ \E action \in FanOutInputs : stack = <<>> /\ Dispatch(action)
  \/ ReducerReturn
  \/ InReducer /\ \E e \in ReducerErrors : ReducerRaise(e)
  \/ InvokeListener
  \/ ListenerReturn
  \/ DispatchReturn

SpecFanOut == InitFanOut /\ [][NextFanOut]_vars

\* ------------------------------------------------------ bindActionCreators
\* The action creators of user code: inc returns the INC action whatever it is
\* given, echo returns its argument, explode raises.
ActionCreators == {"inc", "echo", "explode"}
ActionCreatorFn(c, arg) ==
  IF c = "inc" THEN ActInc ELSE IF c = "echo" THEN arg ELSE Throws

\* An object with the given own properties, in Object.keys order.
Creators(props) ==
  [typeof |-> "object", id |-> "creators", chain |-> <<"Object.prototype">>,
   type |-> Undefined, entries |-> props]

\* Mutant of bindActionCreator: the function calls the creator without the
\* arguments it was called with.
bindActionCreator_NoArguments(actionCreator, dispatch) ==
  [typeof |-> "function", id |-> "bound", actionCreator |-> actionCreator,
   dispatch |-> dispatch, passes |-> FALSE, returns |-> TRUE]

\* bindActionCreator(actionCreator, dispatch), lines 1-5: the function it
\* returns closes over both; it passes its arguments to the creator and
\* returns what dispatch returns.
bindActionCreator(actionCreator, dispatch) ==
  [typeof |-> "function", id |-> "bound", actionCreator |-> actionCreator,
   dispatch |-> dispatch, passes |-> TRUE, returns |-> TRUE]

\* The for loop of bindActionCreators, lines 45-52.
RECURSIVE BindLoop(_, _)
BindLoop(props, dispatch) ==
  IF props = <<>> THEN <<>>
  ELSE (IF Head(props).value.typeof = "function"
        THEN <<Prop(Head(props).key, bindActionCreator(Head(props).value.id, dispatch))>>
        ELSE <<>>) \o BindLoop(Tail(props), dispatch)

\* bindActionCreators(actionCreators, dispatch), lines 28-54.
bindActionCreators(actionCreators, dispatch) ==
  IF actionCreators.typeof = "function"
  THEN bindActionCreator(actionCreators.id, dispatch)
  ELSE IF actionCreators.typeof # "object" \/ actionCreators = Null
  THEN Throw("bindActionCreators expected an object or a function, instead received "
             \o (IF actionCreators = Null THEN "null" ELSE actionCreators.typeof))
  ELSE Creators(BindLoop(actionCreators.entries, dispatch))

\* What user code hands to bindActionCreators, and to the functions it gets.
BindInputs ==
  {Fn("echo"), Null, Num(1),
   Creators(<<Prop("inc", Fn("inc")), Prop("n", Num(1)), Prop("u", Undefined),
              Prop("explode", Fn("explode")), Prop("echo", Fn("echo"))>>)}
CreatorArgs == {ActInc, ActBoom, ActNoType, ActString}

\* The functions user code holds after bindActionCreators returned.
BoundFunctions ==
  IF bound.typeof = "function" THEN {bound}
  ELSE IF bound.typeof = "object"
  THEN {bound.entries[i].value : i \in DOMAIN bound.entries}
  ELSE {}

InBound == stack # <<>> /\ Top.kind = "bound"

\* User code calls bindActionCreators(actionCreators, store.dispatch).
BindActionCreators(actionCreators) ==
  /\ UserCodeRuns
  /\ LET b == bindActionCreators(actionCreators, Fn("dispatch"))
     IN IF b.typeof = "throws"
        THEN ret' = Raised("bindActionCreators", b.err) /\ UNCHANGED bound
        ELSE ret' = Returned("bindActionCreators", Undefined) /\ bound' = b
  /\ UNCHANGED <<storeVars, stack, created, args, diagVars, observed>>

\* User code calls a function bindActionCreators gave it: the function of
\* line 2 is entered.
CallBound(f, arg) ==
  /\ UserCodeRuns
  /\ f \in BoundFunctions
  /\ stack' = Append(stack, [kind |-> "bound", f |-> f,
                             arg |-> IF f.passes THEN arg ELSE Undefined])
  /\ ret' = NoRet
  /\ UNCHANGED <<storeVars, created, args, diagVars, glueVars>>

\* Line 3: actionCreator.apply(this, arguments), then dispatch of its result.
\* An error of the creator leaves the function with dispatch not called.
BoundDispatch ==
  /\ InBound /\ ret = NoRet
  /\ LET action == ActionCreatorFn(Top.f.actionCreator, Top.arg)
     IN IF action = Throws
        THEN /\ stack' = Pop(stack)
             /\ ret' = Raised("bound", "CreatorError")
             /\ UNCHANGED <<heap, currentListeners, nextListeners, isDispatching, subs>>
        ELSE DispatchCall(action, "user", currentReducer, currentState)
  /\ UNCHANGED <<currentReducer, currentState, created, args, diagVars, glueVars>>

\* dispatch has returned or raised: so does the function, with the same value
\* or error.
BoundReturn ==
  /\ InBound /\ ret.op = "dispatch"
  /\ stack' = Pop(stack)
  /\ ret' = IF ret.err # "none" THEN Raised("bound", ret.err)
            ELSE Returned("bound", IF Top.f.returns THEN ret.val ELSE Undefined)
  /\ UNCHANGED <<storeVars, created, args, diagVars, glueVars>>

\* A store on the counter reducer, as createStore leaves it; user code binds
\* action creators to its dispatch and calls them, and dispatches directly,
\* from the top level and from its one listener.
InitBind ==
  /\ created = "ready"
  /\ args = NoArgs
  /\ currentReducer = "counter"
  /\ currentState = Num(0)
  /\ heap = [a \in ArrayIds |-> <<>>]
  /\ currentListeners = 1
  /\ nextListeners = 1
  /\ isDispatching = FALSE
  /\ subs = <<>>
  /\ stack = <<>>
  /\ ret = NoRet
  /\ unexpectedKeyCache = [r \in Combinations |-> {}]
  /\ warnings = NoWarning
  /\ bound = Undefined
  /\ observed = NotObserved

NextBind ==
  \/ \E actionCreators \in BindInputs : stack = <<>> /\ BindActionCreators(actionCreators)
  \/ \E f \in BoundFunctions, arg \in CreatorArgs :
       /\ DispatchDepth < CoreDepth \/ isDispatching
       /\ CallBound(f, arg)
  \/ BoundDispatch
  \/ BoundReturn
  \/ \E action \in CreatorArgs : stack = <<>> /\ Dispatch(action)
  \/ stack = <<>> /\ subs = <<>> /\ Subscribe("A")
  \/ ReducerReturn
  \/ InReducer /\ \E e \in ReducerErrors : ReducerRaise(e)
  \/ InvokeListener
  \/ ListenerReturn
  \/ DispatchReturn

SpecBind == InitBind /\ [][NextBind]_vars

\* ----------------------------------------------------------- observable
MaxCalls == 3        \* calls of observer.next followed

\* observeState, lines 258-262: the function observable().subscribe registers
\* as a listener.  Each subscribe call makes a new one.
observeState == "observeState"
\* An observer object, with or without a next method.
Observer(hasNext) == [typeof |-> "object", id |-> "observer", next |-> hasNext]
ObserverInputs == {Observer(TRUE), Observer(FALSE), Null, Fn("observer"), Undefined}
Subscription == [typeof |-> "object", id |-> "subscription"]

\* Mutant of ObserveStateCall: only the first call reaches observer.next.
ObserveStateCall_FirstOnly(obs, state) ==
  IF obs.observer.next /\ obs.calls = 0
  THEN [obs EXCEPT !.calls = @ + 1, !.last = state]
  ELSE obs

\* A call of observeState(), lines 258-262, while getState() returns `state`:
\* observer.next(getState()) if the observer has a next method.  The observer
\* counts its calls and keeps the value it was given last.
ObserveStateCall(obs, state) ==
  IF obs.observer.next
  THEN [obs EXCEPT !.calls = @ + 1, !.last = state]
  ELSE obs

\* The observer's registration is active: subscribed and not yet unsubscribed.
ObserverActive ==
  \E k \in DOMAIN subs : subs[k].listener = observeState /\ subs[k].isSubscribed
\* The subscription's unsubscribe has been called and has returned.
ObserverUnsubscribed ==
  \E k \in DOMAIN subs : subs[k].listener = observeState /\ ~subs[k].isSubscribed

\* observable().subscribe(observer), lines 253-267: the type check, the call
\* observeState() (getState raises while a reducer runs), then
\* outerSubscribe(observeState), lines 113-131.
ObservableSubscribe(observer) ==
  /\ UserCodeRuns
  /\ observed.observer = Undefined
  /\ IF observer.typeof # "object" \/ observer = Null
     THEN /\ ret' = Raised("observable.subscribe", "ObserverNotObject")
          /\ UNCHANGED <<heap, nextListeners, subs, observed>>
     ELSE IF observer.next /\ isDispatching
     THEN /\ ret' = Raised("observable.subscribe", "ReentrantRead")
          /\ UNCHANGED <<heap, nextListeners, subs, observed>>
     ELSE IF isDispatching
     THEN /\ ret' = Raised("observable.subscribe", "ReentrantSubscribe")
          /\ UNCHANGED <<heap, nextListeners, subs, observed>>
     ELSE /\ Len(subs) < MaxSubs
          /\ observed' = ObserveStateCall([NotObserved EXCEPT !.observer = observer],
                                          currentState)
          /\ LET e == ensureCanMutateNextListeners(heap, currentListeners, nextListeners, stack)
             IN /\ nextListeners' = e.next
                /\ heap' = [e.heap EXCEPT ![e.next] = Append(@, observeState)]
          /\ subs' = Append(subs, [listener |-> observeState, isSubscribed |-> TRUE])
          /\ ret' = Returned("observable.subscribe", Subscription)
  /\ UNCHANGED <<currentReducer, currentState, currentListeners, isDispatching,
                 stack, created, args>>
  /\ UNCHANGED <<diagVars, bound>>

\* The listener observeState runs, lines 258-262: observer.next(getState()) if
\* the observer has a next method; the observer records what it is given.
ObserverNext ==
  /\ InListener
  /\ Top.l = observeState
  /\ observed' = ObserveStateCall(observed, currentState)
  /\ stack' = Pop(stack)
  /\ ret' = NoRet
  /\ UNCHANGED <<storeVars, created, args, diagVars, bound>>

\* A store on the counter reducer, as createStore leaves it.  User code
\* subscribes one observer to the store's observable and one listener A, calls
\* the unsubscribe functions and dispatches, from the top level, from A and
\* from reducers.
InitObserve ==
  /\ created = "ready"
  /\ args = NoArgs
  /\ currentReducer = "counter"
  /\ currentState = Num(0)
  /\ heap = [a \in ArrayIds |-> <<>>]
  /\ currentListeners = 1
  /\ nextListeners = 1
  /\ isDispatching = FALSE
  /\ subs = <<>>
  /\ stack = <<>>
  /\ ret = NoRet
  /\ unexpectedKeyCache = [r \in Combinations |-> {}]
  /\ warnings = NoWarning
  /\ bound = Undefined
  /\ observed = NotObserved

NextObserve ==
  \/ \E observer \in ObserverInputs : ObservableSubscribe(observer)
  \/ \E k \in 1..MaxSubs : Unsubscribe(k)
  \/ /\ \A k \in DOMAIN subs : subs[k].listener # "A"
     /\ Subscribe("A")
  \/ \E action \in {ActInc, ActBoom} :
       /\ observed.calls < MaxCalls
       /\ Dispatch(action)
  \/ ReducerReturn
  \/ InReducer /\ \E e \in ReducerErrors : ReducerRaise(e)
  \/ InvokeListener
  \/ InListener /\ Top.l # observeState /\ ListenerReturn
  \/ InListener /\ Top.l # observeState /\ ListenerThrow("ListenerError")
  \/ ObserverNext
  \/ DispatchReturn

SpecObserve == InitObserve /\ [][NextObserve]_vars

\* ================================================================ claims
\* The inputs dispatch accepts, and those it refuses.
ValidInputs == {action \in DispatchInputs : ValidAction(action)}
InvalidInputs == DispatchInputs \ ValidInputs
BagOfSeq(s) == [x \in {s[k] : k \in DOMAIN s} |-> Cardinality({k \in DOMAIN s : s[k] = x})]
IsPrefix(s, t) == Len(s) <= Len(t) /\ \A k \in 1..Len(s) : s[k] = t[k]
NotifyFrames == {j \in DOMAIN stack : stack[j].kind = "dispatch" /\ stack[j].phase = "notify"}
\* The loop of frame j has no turn left (its dispatch is about to return, or
\* is suspended for good in the last listener).
LoopOver(j) == stack[j].i >= Len(heap[stack[j].listeners])

\* C1  Snapshot consistency.  The listeners a notification loop has invoked
\* are, at every moment, the first entries of the pending list as it stood when
\* the loop started (snap), and all of them when the loop is over: no
\* subscribe or unsubscribe made by a listener adds to or removes from the
\* running loop.  What they change is the pending list, which always holds
\* exactly the active subscriptions and is what the next dispatch snapshots.
SnapshotConsistency ==
  /\ \A j \in NotifyFrames :
       /\ IsPrefix(stack[j].invoked, stack[j].snap)
       /\ Len(stack[j].invoked) = stack[j].i
       /\ LoopOver(j) => stack[j].invoked = stack[j].snap
  /\ created = "ready" =>
       BagOfSeq(heap[nextListeners]) = BagOfSeq(ActiveRegs(subs))

\* C1 witness: A and B were registered, the dispatch has invoked A and B, and
\* during its loop B was unsubscribed and C subscribed.
SnapshotConsistencyWitness ==
  /\ Len(stack) = 1 /\ InLoop
  /\ Top.snap = <<"A", "B">> /\ Top.invoked = <<"A", "B">>
  /\ heap[nextListeners] = <<"A", "C">>
  /\ subs = <<[listener |-> "A", isSubscribed |-> TRUE],
              [listener |-> "B", isSubscribed |-> FALSE],
              [listener |-> "C", isSubscribed |-> TRUE]>>

\* C2  Ordering guarantee, as claimed: the listeners a dispatch invokes are
\* the registrations active when the dispatch call began (regs), each once, in
\* registration order, and each is invoked when currentState holds the
\* reducer's result (or that of a later, nested dispatch).
OrderingGuarantee ==
  /\ \A j \in NotifyFrames :
       /\ IsPrefix(stack[j].invoked, stack[j].regs)
       /\ LoopOver(j) => stack[j].invoked = stack[j].regs
  /\ \A j \in DOMAIN stack :
       stack[j].kind = "listener" =>
         (stack[j].seen = stack[j - 1].result \/ stack[j].nestedBefore)

\* C3  Re-entrancy rejection.  While isDispatching, a call of getState, of
\* subscribe with a function, of the unsubscribe closure of an active
\* subscription, or of dispatch with a valid action ends with its re-entrancy
\* error and changes nothing the store owns; the reducer keeps running.
ReentrancyRejection ==
  [][isDispatching =>
       /\ GetState =>
            ret' = Raised("getState", "ReentrantRead") /\ UNCHANGED <<storeVars, stack>>
       /\ \A listener \in Listeners :
            Subscribe(listener) =>
              ret' = Raised("subscribe", "ReentrantSubscribe")
              /\ UNCHANGED <<storeVars, stack>>
       /\ \A k \in DOMAIN subs :
            (subs[k].isSubscribed /\ Unsubscribe(k)) =>
              ret' = Raised("unsubscribe", "ReentrantUnsubscribe")
              /\ UNCHANGED <<storeVars, stack>>
       /\ \A action \in ValidInputs :
            Dispatch(action) =>
              ret' = Raised("dispatch", "NestedDispatch")
              /\ UNCHANGED <<storeVars, stack>>]_vars

\* C3 witness: the reducer of a store with an active subscription has called
\* that subscription's unsubscribe closure and was refused.
ReentrancyRejectionWitness ==
  /\ InReducer /\ isDispatching
  /\ ret = Raised("unsubscribe", "ReentrantUnsubscribe")
  /\ \E k \in DOMAIN subs : subs[k].isSubscribed

\* C4  Guaranteed release.  The store is Dispatching exactly while a reducer
\* runs.  When the reducer raises, the error reaches the caller of dispatch
\* with the store Idle, currentState as it was before the dispatch, no listener
\* invoked and the snapshot not advanced; a valid dispatch made next enters
\* its reducer instead of being refused as nested.
GuaranteedRelease ==
  /\ [](isDispatching <=> InReducer)
  /\ [][\A e \in ErrorNames :
          ReducerRaise(e) =>
            /\ ret' = Raised(OpOf(Top.via), e)
            /\ ~isDispatching'
            /\ currentState' = Top.pre
            /\ stack' = Pop(stack)
            /\ UNCHANGED <<heap, currentListeners, nextListeners, subs>>]_vars
  /\ [][\A action \in ValidInputs :
          (ret.err \in ErrorNames /\ ret.op = "dispatch" /\ ~InReducer
             /\ Dispatch(action)) =>
            (InReducer' /\ Top'.action = action /\ ret' = NoRet)]_vars

\* C4 witness: a dispatch has failed with the reducer's error while a
\* listener was registered and the pending list was ahead of the snapshot.
GuaranteedReleaseWitness ==
  /\ stack = <<>> /\ ~isDispatching
  /\ ret = Raised("dispatch", "ReducerError")
  /\ nextListeners # currentListeners
  /\ heap[nextListeners] # <<>>

\* C5  Nested dispatch by a reducer.  The inner call ends with the
\* nested-dispatch error and the store stays Dispatching.  If the reducer then
\* returns, its result becomes currentState and the loop over the pending list
\* starts (each entry invoked once); if it lets the error out, dispatch ends
\* with that error, currentState is unchanged and no listener is invoked.
NestedDispatchByReducer ==
  /\ [][\A action \in ValidInputs :
          (isDispatching /\ Dispatch(action)) =>
            /\ ret' = Raised("dispatch", "NestedDispatch")
            /\ isDispatching'
            /\ UNCHANGED <<storeVars, stack>>]_vars
  /\ [][(ret.err = "NestedDispatch" /\ InReducer /\ ReducerReturn) =>
          /\ currentState' = ReducerFn(Top.red, Top.pre, Top.action)
          /\ ~isDispatching'
          /\ InLoop' /\ Len(stack') = Len(stack)
          /\ Top'.snap = heap[nextListeners] /\ Top'.invoked = <<>>]_vars
  /\ [](\A j \in NotifyFrames :
          /\ IsPrefix(stack[j].invoked, stack[j].snap)
          /\ Len(stack[j].invoked) = stack[j].i
          /\ LoopOver(j) => stack[j].invoked = stack[j].snap)
  /\ [][(ret.err = "NestedDispatch" /\ InReducer /\ ReducerRaise("NestedDispatch")) =>
          /\ ret' = Raised(OpOf(Top.via), "NestedDispatch")
          /\ currentState' = Top.pre
          /\ stack' = Pop(stack)
          /\ UNCHANGED <<heap, currentListeners, nextListeners, subs>>]_vars

\* C5 witness: the reducer of a store with a listener has called dispatch and
\* was refused; the store is still Dispatching.
NestedDispatchByReducerWitness ==
  /\ InReducer /\ isDispatching
  /\ ret = Raised("dispatch", "NestedDispatch")
  /\ heap[nextListeners] # <<>>

\* C6  Referential stability of a combined reducer.  For every state s the
\* store hands to a combination and every action, each retained sub-reducer is
\* called once, in key order, with s[key]; the combination returns s itself
\* exactly when every one of them returned a value === s[key], and otherwise
\* a new object, distinct from s and from every sub-state, that holds exactly
\* the values returned.  === is JavaScript's: identity for objects, so a copy
\* with the same content counts as a change.
ReferentialStability ==
  [][(ReducerReturn /\ Top.red \in Combinations /\ currentState # Undefined) =>
       LET s == currentState
           calls == RunReducer(Top.red, s, Top.action).calls
           unchanged == \A i \in DOMAIN calls :
                          StrictEquals(calls[i].next, Get(s, calls[i].key))
       IN /\ [i \in DOMAIN calls |-> calls[i].key] = Closure(Top.red).finalReducerKeys
          /\ \A i \in DOMAIN calls :
               calls[i].next = SubReducerFn(calls[i].reducer, Get(s, calls[i].key),
                                            Top.action, calls[i].next.id)
          /\ unchanged <=> currentState' = s
          /\ ~unchanged =>
               /\ HasProps(currentState')
               /\ currentState'.id \notin IdsOf(s)
               /\ \A i \in DOMAIN calls : currentState'.id \notin IdsOf(calls[i].next)
               /\ KeysOf(currentState') = RetainedKeys(Top.red)
               /\ \A i \in DOMAIN calls :
                    Get(currentState', calls[i].key) = calls[i].next]_vars

\* C6 witness: TOUCH was dispatched to a store holding {a, b}; a is the same
\* and b is a copy of the box with the same content, and the state is a new
\* object.
ReferentialStabilityWitness ==
  /\ InLoop /\ Top.red = "combAB" /\ Top.action = ActTouch
  /\ KeysOf(Top.pre) = {"a", "b"}
  /\ Top.result = currentState /\ currentState.id # Top.pre.id
  /\ currentState.props.a = Top.pre.props.a
  /\ DeepEqual(currentState.props.b, Top.pre.props.b)
  /\ currentState.props.b.id # Top.pre.props.b.id

\* C7  Composite state shape, as claimed: whenever a combination has run on
\* no state or on a record (the INIT dispatch of createStore, a dispatch, the
\* REPLACE dispatch of replaceReducer), the state of the store is a record
\* whose keys are exactly the retained keys of that combination.
CompositeStateShape ==
  [][(ReducerReturn /\ Top.red \in Combinations
        /\ (currentState = Undefined \/ HasProps(currentState))) =>
       /\ HasProps(currentState')
       /\ KeysOf(currentState') = RetainedKeys(Top.red)]_vars

\* C8  Initialization, as claimed: with or without a preloadedState, the state
\* of the store createStore returns is the reducer's output for
\* (undefined, INIT).
InitializationAsClaimed ==
  [][(created = "new" /\ created' = "ready") =>
        currentState' = ReducerFn(currentReducer', Undefined, ActInit)]_vars

\* C8, amended.  createStore performs exactly one dispatch, of the INIT action,
\* before it returns the store, and the state of the store it returns is the
\* reducer's output for (preloadedState, INIT): that is its output for
\* (undefined, INIT) when no preloadedState was passed.
Initialization ==
  /\ [][(created = "new" /\ created' = "ready") =>
          /\ currentReducer' = args.reducer
          /\ currentState' = ReducerFn(args.reducer, args.preloadedState, ActInit)
          /\ (args.preloadedState = Undefined =>
                currentState' = ReducerFn(args.reducer, Undefined, ActInit))
          /\ stack' = <<>> /\ ret' = Returned("createStore", Undefined)]_vars
  /\ [](created = "new" =>
          /\ Len(stack) <= 1
          /\ \A j \in DOMAIN stack :
               /\ stack[j].kind = "dispatch" /\ stack[j].via = "init"
               /\ stack[j].action = ActInit
               /\ stack[j].pre = args.preloadedState)
  /\ [](created = "ready" => \A j \in DOMAIN stack :
          stack[j].kind = "dispatch" => stack[j].via # "init")

\* C8 witness: createStore(counter, 1) has just returned; the state is 1, not
\* counter's initial state 0.
InitializationWitness ==
  /\ created = "ready" /\ ret = Returned("createStore", Undefined)
  /\ currentReducer = "counter" /\ currentState = Num(1)

\* C9  Action validation.  dispatch of a value that is not a plain object,
\* or of a plain object whose type is undefined, ends with the action-shape
\* error, also while the store is Dispatching, and calls no reducer, invokes no
\* listener and changes nothing the store owns.  A dispatch that returns,
\* returns the action it was given.
ActionValidation ==
  /\ [][\A action \in InvalidInputs :
          Dispatch(action) =>
            /\ ret' = Raised("dispatch", IF isPlainObject(action)
                                         THEN "ActionTypeUndefined"
                                         ELSE "ActionNotPlainObject")
            /\ UNCHANGED <<storeVars, stack>>]_vars
  /\ [][(DispatchReturn /\ Top.via = "user") =>
          (ret' = Returned("dispatch", Top.action) /\ ValidAction(ret'.val))]_vars
  /\ [](\A j \in DOMAIN stack : stack[j].kind = "dispatch" => ValidAction(stack[j].action))

\* C9 witness: a reducer has dispatched a value that is not a plain object
\* and got the action-shape error, not the nested-dispatch error.
ActionValidationWitness ==
  /\ InReducer /\ isDispatching
  /\ ret = Raised("dispatch", "ActionNotPlainObject")

\* C10  replaceReducer(nextReducer) on an Idle store installs nextReducer and
\* enters one dispatch of the REPLACE action, computed by nextReducer on the
\* current state and followed by one notification loop; every dispatch is
\* computed by the reducer that was current when it was called, and only
\* createStore and replaceReducer change the current reducer.  With a
\* nextReducer that is not a function it raises and changes nothing.
ReplaceReducerInstalls ==
  /\ [][\A nextReducer \in Reducers :
          (~isDispatching /\ ReplaceReducer(nextReducer)) =>
            /\ currentReducer' = nextReducer
            /\ InReducer' /\ Len(stack') = Len(stack) + 1
            /\ Top'.action = ActReplace /\ Top'.red = nextReducer
            /\ Top'.pre = currentState /\ currentState' = currentState]_vars
  /\ [][ReducerReturn =>
          /\ currentState' = ReducerFn(Top.red, Top.pre, Top.action)
          /\ Top'.snap = heap[nextListeners]]_vars
  /\ [][(~isDispatching /\ isDispatching') => Top'.red = currentReducer']_vars
  /\ [](\A j \in NotifyFrames :
          /\ IsPrefix(stack[j].invoked, stack[j].snap)
          /\ Len(stack[j].invoked) = stack[j].i
          /\ LoopOver(j) => stack[j].invoked = stack[j].snap)
  /\ [][(DispatchReturn /\ Top.via = "replace") =>
          ret' = Returned("replaceReducer", Undefined)]_vars
  /\ [][currentReducer' # currentReducer =>
          (CreateStore \/ \E nextReducer \in Reducers :
                            ReplaceReducer(nextReducer) /\ currentReducer' = nextReducer)]_vars
  /\ [][ReplaceReducer(NotAFunction) =>
          /\ ret' = Raised("replaceReducer", "NextReducerNotFunction")
          /\ UNCHANGED <<storeVars, stack>>]_vars

\* C10 witness: the store was built on counter, down has replaced it, and the
\* REPLACE dispatch has run down and notified the listener.
ReplaceReducerInstallsWitness ==
  /\ Len(stack) = 1 /\ InLoop /\ Top.via = "replace" /\ Top.red = "down"
  /\ Top.snap # <<>> /\ Top.invoked = Top.snap
  /\ currentReducer = "down"

\* The retained keys of the combination r whose reducer returns undefined for
\* (undefined, INIT) or for (undefined, probe action), and the errors that
\* name one of them.
OffendingKeys(r) ==
  {Closure(r).finalReducers[i].key :
     i \in {j \in DOMAIN Closure(r).finalReducers :
              \/ SubReducerFn(Closure(r).finalReducers[j].value.id, Undefined, ActInit,
                              "o1") = Undefined
              \/ SubReducerFn(Closure(r).finalReducers[j].value.id, Undefined, ActProbe,
                              "o1") = Undefined}}
ErrorsNaming(keys) ==
  {"Reducer " \o k \o " returned undefined during initialization" : k \in keys}
  \cup {"Reducer " \o k \o " returned undefined when probed with a random type" : k \in keys}
Unsound == {r \in Combinations : OffendingKeys(r) # {}}

\* C11  Deferred composite validation.  combineReducers returns for every
\* mapping, also one with a sub-reducer that returns undefined for
\* (undefined, INIT) or (undefined, probe).  Every call of the combination it
\* returned for such a mapping, on whatever state and action, raises the same
\* stored error, which names an offending key, having called no sub-reducer;
\* such a call never returns, and createStore on such a combination fails with
\* that error.
DeferredValidation ==
  /\ [][CombineReducers => (created' = "new" /\ ret' = ret)]_vars
  /\ [](\A j \in DOMAIN stack :
          (stack[j].kind = "dispatch" /\ stack[j].phase = "reduce"
             /\ stack[j].red \in Unsound) =>
            LET run == RunReducer(stack[j].red, currentState, stack[j].action)
            IN /\ run.out = Throw(Closure(stack[j].red).shapeAssertionError)
               /\ run.out.err \in ErrorsNaming(OffendingKeys(stack[j].red))
               /\ run.calls = <<>>)
  /\ [][(InReducer /\ Top.red \in Unsound) =>
          /\ ~ReducerReturn
          /\ ret' = Raised(OpOf(Top.via), Closure(Top.red).shapeAssertionError)
          /\ currentState' = currentState
          /\ (Top.via = "init" => created' = "failed")]_vars
  /\ [][(created = "new" /\ created' = "ready") => currentReducer' \notin Unsound]_vars

\* C11 witness: an unsound combination, installed by replaceReducer (its first
\* call raised), has been called again by a dispatch and raised the stored
\* error naming z.
DeferredValidationWitness ==
  /\ created = "ready" /\ currentReducer = "combAZ" /\ stack = <<>>
  /\ ret = Raised("dispatch", "Reducer z returned undefined during initialization")

\* C12  Unsubscribe removes only its own registration, as claimed: on an Idle
\* store the first call of an unsubscribe closure marks its subscription
\* inactive and takes one entry out of the pending list, every later call
\* changes nothing, and the pending list holds the listeners of the
\* registrations still active, in registration order.
UnsubscribeOwnRegistration ==
  /\ [][\A k \in DOMAIN subs :
          (~isDispatching /\ Unsubscribe(k)) =>
            IF subs[k].isSubscribed
            THEN /\ subs' = [subs EXCEPT ![k].isSubscribed = FALSE]
                 /\ Len(heap'[nextListeners']) = Len(heap[nextListeners]) - 1
                 /\ BagOfSeq(heap'[nextListeners']) = BagOfSeq(ActiveRegs(subs'))
            ELSE UNCHANGED <<storeVars, stack>>]_vars
  /\ [](created = "ready" => heap[nextListeners] = ActiveRegs(subs))

\* What the claim calls a plain record: an object literal (its prototype is
\* Object.prototype) or an object created with a null prototype.
ClaimedPlain(v) ==
  v.typeof = "object" /\ v # Null /\ v.chain \in {<<>>, <<"Object.prototype">>}

\* C13  Plain-record detection, as claimed: of the values handed to dispatch,
\* isPlainObject accepts the object literals and the objects with a null
\* prototype, and rejects null, the primitives, the arrays and the class
\* instances; dispatch raises its not-a-plain-object error for exactly the
\* values rejected.
PlainRecordDetection ==
  /\ [](\A action \in DispatchInputs : isPlainObject(action) <=> ClaimedPlain(action))
  /\ [][\A action \in DispatchInputs :
          Dispatch(action) =>
            (ret' = Raised("dispatch", "ActionNotPlainObject") <=> ~ClaimedPlain(action))]_vars

\* The keys of an object of creators whose values are functions, in order.
CallableKeys(actionCreators) ==
  LET callable == SelectSeq(actionCreators.entries, LAMBDA p : p.value.typeof = "function")
  IN [i \in DOMAIN callable |-> callable[i].key]

\* C14  Binder equivalence.  bindActionCreators dispatches nothing; for a
\* function it returns one bound function, for an object an object with
\* exactly the keys whose values are functions, each bound to the creator
\* under that key, and for anything else it raises.  A call of a bound
\* function with an argument begins the very dispatch that the direct call
\* dispatch(creator(argument)) begins in that state (same action, reducer and
\* state, or the same refusal), so the reducer run and the notifications that
\* follow are those of the direct call; the function returns what that
\* dispatch returned, or raises what it raised.
(* A creator that raises leaves the function with dispatch never called. *)
BinderEquivalence ==
  /\ [][\A actionCreators \in BindInputs :
          BindActionCreators(actionCreators) =>
            /\ UNCHANGED <<storeVars, stack>>
            /\ IF actionCreators.typeof = "function"
               THEN /\ bound'.typeof = "function"
                    /\ bound'.actionCreator = actionCreators.id
               ELSE IF actionCreators.typeof = "object" /\ actionCreators # Null
               THEN /\ [i \in DOMAIN bound'.entries |-> bound'.entries[i].key]
                         = CallableKeys(actionCreators)
                    /\ \A i \in DOMAIN bound'.entries :
                         bound'.entries[i].value.actionCreator
                           = PropOf(actionCreators.entries, bound'.entries[i].key).id
               ELSE ret'.err # "none" /\ bound' = bound]_vars
  /\ [][\A f \in BoundFunctions, arg \in CreatorArgs :
          CallBound(f, arg) =>
            (Top'.arg = arg /\ Top'.f = f /\ UNCHANGED storeVars)]_vars
  /\ [][BoundDispatch =>
          LET action == ActionCreatorFn(Top.f.actionCreator, Top.arg)
          IN IF action = Throws
             THEN ret' = Raised("bound", "CreatorError") /\ UNCHANGED storeVars
             ELSE IF ~isPlainObject(action)
             THEN ret' = Raised("dispatch", "ActionNotPlainObject")
                  /\ UNCHANGED <<storeVars, stack>>
             ELSE IF action.type = Undefined
             THEN ret' = Raised("dispatch", "ActionTypeUndefined")
                  /\ UNCHANGED <<storeVars, stack>>
             ELSE IF isDispatching
             THEN ret' = Raised("dispatch", "NestedDispatch")
                  /\ UNCHANGED <<storeVars, stack>>
             ELSE /\ stack' = Append(stack, ReduceFrame(action, "user", currentReducer,
                                                        currentState))
                  /\ isDispatching'
                  /\ UNCHANGED <<currentReducer, currentState, heap, currentListeners,
                                 nextListeners, subs>>]_vars
  /\ [][\A action \in CreatorArgs :
          (~isDispatching /\ ValidAction(action) /\ Dispatch(action)) =>
            stack' = Append(stack, ReduceFrame(action, "user", currentReducer,
                                               currentState))]_vars
  /\ [][BoundReturn =>
          /\ ret'.val = ret.val /\ ret'.err = ret.err /\ ret'.op = "bound"
          /\ UNCHANGED storeVars]_vars
  /\ [](InBound => ret.op \in {"none", "dispatch"})

\* C14 witness: the function bound to echo in an object of creators was
\* called with the INC action; the state went from 0 to 1, the listener was
\* notified and the function returned the action, as dispatch does.
BinderEquivalenceWitness ==
  /\ stack = <<>> /\ bound.typeof = "object" /\ subs # <<>>
  /\ ret = Returned("bound", ActInc)
  /\ currentState = Num(1)

\* The dispatch whose loop called the running listener.
Caller == stack[Len(stack) - 1]
Occurrences(seq, x) == Cardinality({k \in DOMAIN seq : seq[k] = x})

SubscribedThroughout(frame) ==
  {subs[k].listener : k \in {n \in 1..frame.nsubs : subs[n].isSubscribed}}

\* C16  Nested dispatch from a listener.  The store is Idle while a listener
\* runs, and a dispatch the listener makes is accepted: its reducer runs on
\* the current state, its loop runs over the list pending when its reducer
\* returned and calls every listener of that list before it returns, and the
\* loop that called the listener then resumes on its own list, unchanged.
\* With listeners that do not raise, when the outermost dispatch returns every
\* listener registered before it was called and not unsubscribed since has
\* been invoked after the last state change.
NestedDispatchFromListener ==
  /\ [](InListener => ~isDispatching)
  /\ [][(InListener /\ Dispatch(ActInc)) =>
          stack' = Append(stack, ReduceFrame(ActInc, "user", currentReducer,
                                             currentState))]_vars
  /\ [][ReducerReturn =>
          /\ Top'.snap = heap[nextListeners] /\ Top'.listeners = nextListeners
          /\ Top'.i = 0 /\ Top'.late = {}
          /\ \A j \in 1..(Len(stack) - 1) :
               stack[j].kind = "dispatch" =>
                 /\ stack'[j].i = stack[j].i
                 /\ stack'[j].listeners = stack[j].listeners
                 /\ heap'[stack[j].listeners] = stack[j].snap]_vars
  /\ [][DispatchReturn =>
          /\ Top.invoked = Top.snap
          /\ Len(stack) > 1 =>
               /\ stack'[Len(stack')].kind = "listener"
               /\ LET outer == stack'[Len(stack') - 1]
                  IN /\ outer = stack[Len(stack) - 2]
                     /\ heap'[outer.listeners] = outer.snap
          /\ Len(stack) = 1 => SubscribedThroughout(Top) \subseteq Top.late]_vars
  /\ [][InvokeListener => Top'.seen = currentState]_vars

\* C16 witness: the outermost dispatch is about to return; its second
\* listener dispatched, so its first listener saw the latest state only in
\* the loop of the nested dispatch.
NestedDispatchFromListenerWitness ==
  /\ InLoop /\ Len(stack) = 1 /\ Top.i = Len(heap[Top.listeners])
  /\ Top.nested /\ Top.snap = <<"A", "B">>
  /\ Top.result = Num(1) /\ currentState = Num(2)
  /\ SubscribedThroughout(Top) = {"A", "B"}

\* The arrays the loops in progress iterate, suspended loops included.
Iterated == {stack[j].listeners : j \in NotifyFrames}

\* C17  Frozen snapshots.  An array a loop iterates, running or suspended by
\* a nested dispatch, holds at every moment what it held when the loop
\* started, and no step changes it.  A subscribe or unsubscribe call that
\* changes a list changes the array nextListeners names after the call, which
\* no loop in progress iterates, and no other array.
FrozenSnapshots ==
  /\ [](\A j \in NotifyFrames : heap[stack[j].listeners] = stack[j].snap)
  /\ [][\A j \in NotifyFrames :
          (j \in DOMAIN stack' /\ stack'[j].kind = "dispatch") =>
            /\ stack'[j].listeners = stack[j].listeners
            /\ heap'[stack[j].listeners] = heap[stack[j].listeners]]_vars
  /\ [][((\E listener \in Listeners : Subscribe(listener))
          \/ (\E k \in DOMAIN subs : Unsubscribe(k))) =>
          (subs' # subs =>
             /\ nextListeners' \notin Iterated
             /\ heap'[nextListeners'] # heap[nextListeners]
             /\ \A a \in Iterated : heap'[a] = heap[a]
             /\ \A a \in ArrayIds \ {nextListeners'} : heap'[a] = heap[a])]_vars

\* C17 witness: a listener called by the loop of a nested dispatch has
\* unsubscribed; the loop of the outer dispatch and that of the nested one
\* iterate two arrays, and the pending list is a third one.
FrozenSnapshotsWitness ==
  /\ Len(stack) = 4 /\ InListener
  /\ ret = Returned("unsubscribe", Undefined)
  /\ stack[1].listeners # stack[3].listeners
  /\ nextListeners \notin {stack[1].listeners, stack[3].listeners}
  /\ Len(heap[nextListeners]) < Len(heap[stack[3].listeners])
  /\ stack[1].snap # stack[3].snap

\* C18  Every call of an unsubscribe closure made while the store is
\* Dispatching ends with the re-entrant-unsubscribe error and removes
\* nothing, also the call of a closure whose subscription was unsubscribed
\* before the reducer started.
UnsubscribeWhileDispatching ==
  [][isDispatching =>
       \A k \in DOMAIN subs :
         Unsubscribe(k) =>
           /\ ret' = Raised("unsubscribe", "ReentrantUnsubscribe")
           /\ UNCHANGED <<storeVars, stack>>]_vars

\* C19  replaceReducer called while the store is Dispatching ends with an
\* error and changes neither the current reducer, nor currentState, nor the
\* listener lists: while a reducer runs, the current reducer is the one that
\* is running, and it computes the dispatches that follow.
ReplaceReducerWhileDispatching ==
  /\ [][isDispatching =>
          \A nextReducer \in Reducers \cup {NotAFunction} :
            ReplaceReducer(nextReducer) =>
              /\ ret'.op = "replaceReducer" /\ ret'.err # "none"
              /\ UNCHANGED <<storeVars, stack>>]_vars
  /\ [](InReducer => currentReducer = Top.red)

\* The sub-reducer calls of the combination that is running, and the state it
\* was called with (state = {} when it is undefined).
RunningCalls == RunReducer(Top.red, currentState, Top.action).calls
RunningState == IF currentState = Undefined THEN Rec("o0", EmptyProps) ELSE currentState
ReturnedUndefined(calls) == \E i \in DOMAIN calls : calls[i].next = Undefined

\* C20  Fan-out of a combined reducer, as claimed.  A call of a combination calls the
\* functions of its mapping, in the order of their keys in the mapping, each
\* at most once, with state[key] (undefined when the state lacks the key) and
\* the action, and calls no entry that is not a function.  When one of them
\* returns undefined the calls stop there and the combination raises an error
\* that names the key and the type of the action; the dispatch ends with that
\* error, currentState is unchanged and no listener is invoked.
FanOutAsClaimed ==
  /\ [](InReducer /\ Top.red \in Combinations =>
          LET keys == CallableKeys(Creators(ReducerMaps[Top.red]))
          IN /\ Len(RunningCalls) <= Len(keys)
             /\ \A i \in DOMAIN RunningCalls :
                  /\ RunningCalls[i].key = keys[i]
                  /\ RunningCalls[i].reducer = PropOf(ReducerMaps[Top.red], keys[i]).id
                  /\ PropOf(ReducerMaps[Top.red], keys[i]).typeof = "function"
                  /\ RunningCalls[i].previous =
                       (IF keys[i] \in KeysOf(RunningState)
                        THEN RunningState.props[keys[i]] ELSE Undefined)
                  /\ RunningCalls[i].next = Undefined => i = Len(RunningCalls))
  /\ [][(InReducer /\ Top.red \in Combinations /\ ReturnedUndefined(RunningCalls)) =>
          /\ ret' = Raised(OpOf(Top.via),
                           "Given action " \o String(Top.action.type) \o ", reducer "
                             \o RunningCalls[Len(RunningCalls)].key
                             \o " returned undefined")
          /\ stack' = Pop(stack)
          /\ isDispatching' = FALSE
          /\ UNCHANGED <<currentState, currentReducer, heap, currentListeners,
                         nextListeners, subs>>]_vars

\* C20, amended.  A call of a combination calls the
\* functions of its mapping, in the order of their keys in the mapping, each
\* at most once, with state[key] (undefined when the state lacks the key) and
\* the action, and calls no entry that is not a function.  When one of them
\* returns undefined the calls stop there and the combination raises an error
\* that names the key, and the type of the action unless that type is
\* falsy (null, 0, the empty string), in which case it says "an action"; the
\* dispatch ends with that error, currentState is unchanged and no listener
\* is invoked.
FanOut ==
  /\ [](InReducer /\ Top.red \in Combinations =>
          LET keys == CallableKeys(Creators(ReducerMaps[Top.red]))
          IN /\ Len(RunningCalls) <= Len(keys)
             /\ \A i \in DOMAIN RunningCalls :
                  /\ RunningCalls[i].key = keys[i]
                  /\ RunningCalls[i].reducer = PropOf(ReducerMaps[Top.red], keys[i]).id
                  /\ PropOf(ReducerMaps[Top.red], keys[i]).typeof = "function"
                  /\ RunningCalls[i].previous =
                       (IF keys[i] \in KeysOf(RunningState)
                        THEN RunningState.props[keys[i]] ELSE Undefined)
                  /\ RunningCalls[i].next = Undefined => i = Len(RunningCalls))
  /\ [][(InReducer /\ Top.red \in Combinations /\ ReturnedUndefined(RunningCalls)) =>
          /\ ret' = Raised(OpOf(Top.via),
                           (IF Top.action.type \in {Null, Num(0), Str(""), NaN}
                            THEN "Given an action, reducer "
                            ELSE "Given action " \o String(Top.action.type) \o ", reducer ")
                             \o RunningCalls[Len(RunningCalls)].key
                             \o " returned undefined")
          /\ stack' = Pop(stack)
          /\ isDispatching' = FALSE
          /\ UNCHANGED <<currentState, currentReducer, heap, currentListeners,
                         nextListeners, subs>>]_vars

\* C20 witness: the dispatch of an action whose type is null on the store over
\* {f: forget, a: counter}, with a listener subscribed, has ended with the
\* error for key f; the state is the one built at construction.
FanOutWitness ==
  /\ stack = <<>> /\ subs # <<>> /\ currentReducer = "combFA"
  /\ ret = Raised("dispatch", "Given an action, reducer f returned undefined")
  /\ KeysOf(currentState) = {"f", "a"}

\* A step that copies the listener list: nextListeners names a new array (the
\* only slice() of the store, lines 68-70).
ListCopied == nextListeners' # nextListeners
\* The pending list is still the array of the last snapshot.
Aliased == nextListeners = currentListeners

\* C21  Copy-on-write economy.  The listener list is copied only by a
\* subscribe or unsubscribe call that finds the pending list to be the array
\* of the last snapshot, and the copy ends that: the pending list stays a
\* separate array, changed in place by the calls that follow and copied by
\* none of them, until the next snapshot makes it the current list again.  So
\* at most one copy is made between two consecutive snapshots.  A dispatch
\* copies nothing: its snapshot is the pending array itself, and no step of it
\* changes the pending list.
CopyOnWriteEconomy ==
  /\ [][ListCopied =>
          /\ Aliased
          /\ ~Aliased'
          /\ subs' # subs
          /\ currentListeners' = currentListeners
          /\ heap'[currentListeners] = heap[currentListeners]
          /\ (\E listener \in Listeners : Subscribe(listener))
             \/ (\E k \in DOMAIN subs : Unsubscribe(k))]_vars
  /\ [][(~Aliased /\ Aliased') => ReducerReturn]_vars
  /\ [][(~Aliased /\ subs' # subs) =>
          (~ListCopied /\ heap'[nextListeners] # heap[nextListeners])]_vars
  /\ [][ReducerReturn =>
          /\ ~ListCopied /\ Aliased'
          /\ Top'.listeners = nextListeners
          /\ heap'[nextListeners] = heap[nextListeners]]_vars
  /\ [][(Dispatch(ActInc) \/ InvokeListener \/ ListenerReturn \/ DispatchReturn
          \/ \E e \in ErrorNames : ListenerThrow(e)) =>
          (~ListCopied /\ heap'[nextListeners] = heap[nextListeners])]_vars

\* C21 witness: since the last snapshot, which held A alone, B and C were
\* subscribed and A unsubscribed; the pending list is one copy, apart from
\* the array of the snapshot, which still holds A.
CopyOnWriteEconomyWitness ==
  /\ ~Aliased
  /\ heap[currentListeners] = <<"A">>
  /\ heap[nextListeners] = <<"B", "C">>
  /\ ret = Returned("unsubscribe", Undefined)
  /\ Cardinality({a \in ArrayIds : heap[a] # <<>>}) = 2
====
